---- MODULE Spec2Model ----
(***************************************************************************)
(* Model of the e-commerce sales dashboard (app.py, init_db.py).           *)
(*                                                                         *)
(* app.py is a Streamlit script: every widget change re-runs the script    *)
(* from the top.  The script reads three sidebar widgets, builds the       *)
(* date_filter fragment, and calls run_query (memoised by st.cache_data on *)
(* the query text) eleven times, rendering each result or a placeholder.   *)
(* init_db.py loads database_setup.sql into ecommerce.db once.             *)
(*                                                                         *)
(* Dates are day numbers (days since 1970-01-01); ISO 'YYYY-MM-DD' text    *)
(* compares in the same order.  A DataFrame is the set of its rows (row    *)
(* order is not modelled); the empty DataFrame is {}.  A cell is a tagged  *)
(* record: NULL, an integer, or an exact rational for AVG().               *)
(***************************************************************************)
EXTENDS Integers, Sequences, FiniteSets, TLC

VARIABLES
    seed,          \* the order rows database_setup.sql inserts
    db,            \* "missing" before init_db has run, "loaded" after
    orders,        \* rows of the orders table of ecommerce.db
    now,           \* the current date, as date('now') sees it
    date_range,    \* st.selectbox "Select period:"
    show_details,  \* st.checkbox "Show detailed tables"
    auto_refresh,  \* st.checkbox "Auto-refresh data"
    pc,            \* position of the script run
    cache,         \* st.cache_data store of run_query: query text -> entry
    frame,         \* the KPI DataFrames the script holds (revenue_df, ...)
    display,       \* what the run has rendered so far, per element
    errors,        \* queries whose st.error box is shown in this run
    fault,         \* an exception escaped to the presentation layer
    unclosed,      \* a sqlite3 connection was opened and is not closed yet
    execCount,     \* query text -> number of executions against the database
    okResult,      \* query text -> its first successful execution: the
                   \* result, and the executions of the text up to it
    lastCall,      \* the most recent run_query call and what it returned
    inputs,        \* widget changes so far
    ticks          \* midnights passed so far

vars == <<seed, db, orders, now, date_range, show_details, auto_refresh, pc,
          cache, frame, display, errors, fault, unclosed, execCount, okResult,
          lastCall, inputs, ticks>>

----------------------------------------------------------------------------
(* Bounds of the model.                                                    *)

MaxOrders == 2      \* order rows in database_setup.sql
MaxProcOrders == 1  \* order rows of the seed under the process specification
MaxInputs == 1      \* widget changes in a behaviour
MaxTicks == 1       \* midnights in a behaviour

CustomerIds == {1, 2}
ProductIds == {1, 2}
Price == [p \in ProductIds |-> IF p = 1 THEN 500 ELSE 5000]
Country == [c \in CustomerIds |-> IF c = 1 THEN "IN" ELSE "US"]
Quantities == {1, 2}

----------------------------------------------------------------------------
(* Calendar: what SQLite's date('now', modifier) computes.                 *)

\* Day number of a civil date; a day past the end of the month runs over
\* into the next month.  yy and mp count years and months from 1 March.
DaysFromMarch(yy, mp, d) ==
    (yy \div 400) * 146097 + (yy % 400) * 365 + (yy % 400) \div 4
        - (yy % 400) \div 100 + (153 * mp + 2) \div 5 + d - 1 - 719468

DaysFromCivil(y, m, d) ==
    DaysFromMarch(IF m <= 2 THEN y - 1 ELSE y, IF m > 2 THEN m - 3 ELSE m + 9, d)

CivilOfMonth(y0, doy, mp) ==
    [y |-> IF mp < 10 THEN y0 ELSE y0 + 1,
     m |-> IF mp < 10 THEN mp + 3 ELSE mp - 9,
     d |-> doy - (153 * mp + 2) \div 5 + 1]

CivilOfDay(y0, doy) == CivilOfMonth(y0, doy, (5 * doy + 2) \div 153)

CivilOfYear(era, doe, yoe) ==
    CivilOfDay(yoe + era * 400, doe - (365 * yoe + yoe \div 4 - yoe \div 100))

CivilOfEra(era, doe) ==
    CivilOfYear(era, doe,
        (doe - doe \div 1460 + doe \div 36524 - doe \div 146096) \div 365)

\* The civil date [y, m, d] of a day number.
CivilFromDays(z) ==
    CivilOfEra((z + 719468) \div 146097, (z + 719468) % 146097)

\* date('now', '-1 year'): the year is decremented and the date renormalised
\* (29 February of a leap year becomes 1 March of the year before).
YearBefore(c) == DaysFromCivil(c.y - 1, c.m, c.d)

\* '-1 month' written for '-1 year'.
MinusOneMonth(day) == day - 31

MinusOneYear(day) == YearBefore(CivilFromDays(day))

DateRanges == {"All Time", "Last 30 Days", "Last 90 Days", "Last Year"}

\* The fragment interpolated into every query text.
DateFilter(range) ==
    CASE range = "Last 30 Days" -> "AND o.order_date >= date('now', '-30 days')"
      [] range = "Last 90 Days" -> "AND o.order_date >= date('now', '-90 days')"
      [] range = "Last Year"    -> "AND o.order_date >= date('now', '-1 year')"
      [] OTHER                  -> ""

\* The rows of `rows` that satisfy WHERE 1=1 {date_filter} on day `today`.
Where(rows, filter, today) ==
    CASE filter = "AND o.order_date >= date('now', '-30 days')" ->
            {o \in rows : o.order_date >= today - 30}
      [] filter = "AND o.order_date >= date('now', '-90 days')" ->
            {o \in rows : o.order_date >= today - 90}
      [] filter = "AND o.order_date >= date('now', '-1 year')" ->
            {o \in rows : o.order_date >= MinusOneYear(today)}
      [] OTHER -> rows

----------------------------------------------------------------------------
(* Cells and the formatting helpers.                                       *)

NullCell == [t |-> "null"]
IntCell(n) == [t |-> "int", v |-> n]
RealCell(n, d) == [t |-> "real", num |-> n, den |-> d]

Digit(n) == CASE n = 0 -> "0" [] n = 1 -> "1" [] n = 2 -> "2" [] n = 3 -> "3"
              [] n = 4 -> "4" [] n = 5 -> "5" [] n = 6 -> "6" [] n = 7 -> "7"
              [] n = 8 -> "8" [] OTHER -> "9"

RECURSIVE Digits(_)
Digits(n) == IF n < 10 THEN Digit(n) ELSE Digits(n \div 10) \o Digit(n % 10)

\* The ',' option of Python's format: groups of three digits.
RECURSIVE Grouped(_)
Grouped(n) ==
    IF n < 1000 THEN Digits(n)
    ELSE LET r == n % 1000
         IN  Grouped(n \div 1000) \o "," \o Digit(r \div 100)
                 \o Digit((r \div 10) % 10) \o Digit(r % 10)

\* num/den rounded to an integer, ties to even (Python's 'f' presentation).
RoundHalfEven(num, den) ==
    LET q == num \div den
        r == num % den
    IN  IF 2 * r > den \/ (2 * r = den /\ q % 2 = 1) THEN q + 1 ELSE q

\* One decimal place of num/den, as "{:.1f}" prints it.
OneDecimal(num, den) ==
    LET tenths == RoundHalfEven(10 * num, den)
    IN  Digits(tenths \div 10) \o "." \o Digit(tenths % 10)

AsInteger(cell) ==
    IF cell.t = "int" THEN cell.v ELSE RoundHalfEven(cell.num, cell.den)

\* format_currency without its None test, as Python formats a missing number.
format_currency_nan(amount) ==
    IF amount.t = "null" THEN "₹nan" ELSE "₹" \o Grouped(AsInteger(amount))

format_currency(amount) ==
    IF amount.t = "null" THEN "₹0" ELSE "₹" \o Grouped(AsInteger(amount))

\* num >= 1000000 on None is a TypeError.
format_number_raises(num) == num.t = "null"

format_number(num) ==
    LET n == IF num.t = "int" THEN num.v ELSE num.num
        d == IF num.t = "int" THEN 1 ELSE num.den
    IN  IF n >= 1000000 * d THEN OneDecimal(n, 1000000 * d) \o "M"
        ELSE IF n >= 1000 * d THEN OneDecimal(n, 1000 * d) \o "K"
        ELSE Digits(RoundHalfEven(n, d))

----------------------------------------------------------------------------
(* The eleven aggregate queries, evaluated on the orders table.  customers *)
(* and products are the reference tables; JOIN drops an order whose        *)
(* customer or product row does not exist.                                 *)

\* The sum of f[x] over the domain of the function f.
RECURSIVE Sum(_)
Sum(f) ==
    IF DOMAIN f = {} THEN 0
    ELSE LET x == CHOOSE y \in DOMAIN f : TRUE
         IN  f[x] + Sum([y \in DOMAIN f \ {x} |-> f[y]])

SumOf(S, f(_)) == Sum([x \in S |-> f(x)])

Amount(o) == Price[o.product_id] * o.quantity
Qty(o) == o.quantity

JoinProducts(rows) == {o \in rows : o.product_id \in ProductIds}
JoinCustomers(rows) == {o \in rows : o.customer_id \in CustomerIds}

\* SUM() over no rows is NULL.
SqlSum(rows, f(_)) == IF rows = {} THEN NullCell ELSE IntCell(SumOf(rows, f))

MaxDate(rows) == CHOOSE d \in {o.order_date : o \in rows} :
                     \A o \in rows : o.order_date <= d

\* ORDER BY key DESC LIMIT n; ties are cut in the engine's row order.
TopN(rows, key(_), n) ==
    IF Cardinality(rows) <= n THEN rows
    ELSE CHOOSE S \in SUBSET rows :
            /\ Cardinality(S) = n
            /\ \A a \in S : \A b \in rows \ S : key(a) >= key(b)

YearMonth(c) == c.y * 100 + c.m

\* strftime('%Y-%m', order_date)
Month(o) == YearMonth(CivilFromDays(o.order_date))

\* The CASE with a strict first comparison.
Segment_strict(total_spent) ==
    IF total_spent > 10000 THEN "VIP"
    ELSE IF total_spent >= 5000 THEN "Premium"
    ELSE IF total_spent >= 1000 THEN "Regular"
    ELSE "New"

Segment(total_spent) ==
    IF total_spent >= 10000 THEN "VIP"
    ELSE IF total_spent >= 5000 THEN "Premium"
    ELSE IF total_spent >= 1000 THEN "Regular"
    ELSE "New"

\* The inner SELECT grouped by customer instead of by order.
order_totals_by_customer(j) ==
    {[order_id |-> c,
      order_total |-> SumOf({o \in j : o.customer_id = c}, Amount)] :
        c \in {o.customer_id : o \in j}}

\* The inner SELECT of the average-order-value query: one row per order.
order_totals(j) ==
    {[order_id |-> i,
      order_total |-> SumOf({o \in j : o.order_id = i}, Amount)] :
        i \in {o.order_id : o \in j}}

OrderTotal(r) == r.order_total

\* AVG() over no rows is NULL.
SqlAvg(rows, f(_)) ==
    IF rows = {} THEN NullCell ELSE RealCell(SumOf(rows, f), Cardinality(rows))

\* The inner SELECT of the segment query: one row per customer.
customer_totals(m) ==
    LET j == JoinProducts(JoinCustomers(m))
    IN  {[customer_id |-> c,
          total_spent |-> SumOf({o \in j : o.customer_id = c}, Amount)] :
            c \in {o.customer_id : o \in j}}

TotalSpent(r) == r.total_spent

QueryNames == {"revenue", "orders", "customers", "aov", "monthly",
               "top_products", "country", "segments", "top_customers",
               "product_performance", "recent_orders"}

\* The SELECT of the query `name` over the matching orders m, their join j
\* with products and their join jc with customers and products.
Select(name, m, j, jc) ==
        CASE name = "revenue" ->
                {[total_revenue |-> SqlSum(j, Amount)]}
          [] name = "orders" ->
                {[total_orders |-> IntCell(Cardinality({o.order_id : o \in m}))]}
          [] name = "customers" ->
                {[total_customers |->
                     IntCell(Cardinality({o.customer_id : o \in m}))]}
          [] name = "aov" ->
                {[avg_order_value |-> SqlAvg(order_totals(j), OrderTotal)]}
          [] name = "monthly" ->
                {[month |-> mo,
                  monthly_revenue |-> SumOf({o \in j : Month(o) = mo}, Amount),
                  monthly_orders |->
                     Cardinality({o.order_id : o \in {x \in j : Month(x) = mo}})] :
                    mo \in {Month(o) : o \in j}}
          [] name = "top_products" ->
                LET g == {[product_name |-> p,
                           total_sold |-> SumOf({o \in j : o.product_id = p}, Qty),
                           total_revenue |->
                              SumOf({o \in j : o.product_id = p}, Amount)] :
                            p \in {o.product_id : o \in j}}
                    sold(r) == r.total_sold
                IN  TopN(g, sold, 5)
          [] name = "country" ->
                LET g == {[country |-> k,
                           revenue |->
                              SumOf({o \in jc : Country[o.customer_id] = k}, Amount),
                           customers |-> Cardinality({o.customer_id :
                              o \in {x \in jc : Country[x.customer_id] = k}}),
                           orders |-> Cardinality({o.order_id :
                              o \in {x \in jc : Country[x.customer_id] = k}})] :
                            k \in {Country[o.customer_id] : o \in jc}}
                    rev(r) == r.revenue
                IN  TopN(g, rev, 10)
          [] name = "segments" ->
                LET t == customer_totals(m)
                IN  {[segment |-> s,
                      customer_count |->
                         Cardinality({r \in t : Segment(r.total_spent) = s}),
                      avg_spending |->
                         SqlAvg({r \in t : Segment(r.total_spent) = s},
                                TotalSpent)] :
                        s \in {Segment(r.total_spent) : r \in t}}
          [] name = "top_customers" ->
                LET g == {[customer_id |-> c,
                           country |-> Country[c],
                           total_orders |->
                              Cardinality({o \in jc : o.customer_id = c}),
                           total_items |->
                              SumOf({o \in jc : o.customer_id = c}, Qty),
                           total_spent |->
                              SumOf({o \in jc : o.customer_id = c}, Amount),
                           last_order_date |->
                              MaxDate({o \in jc : o.customer_id = c})] :
                            c \in {o.customer_id : o \in jc}}
                IN  TopN(g, TotalSpent, 10)
          [] name = "product_performance" ->
                {[product_id |-> p,
                  price |-> Price[p],
                  units_sold |-> SumOf({o \in j : o.product_id = p}, Qty),
                  total_revenue |-> SumOf({o \in j : o.product_id = p}, Amount),
                  unique_customers |-> Cardinality({o.customer_id :
                     o \in {x \in j : x.product_id = p}}),
                  \* ROUND(revenue * 1.0 / units, 2), in hundredths
                  avg_selling_price |->
                     LET rev == SumOf({o \in j : o.product_id = p}, Amount)
                         units == SumOf({o \in j : o.product_id = p}, Qty)
                     IN  (200 * rev + units) \div (2 * units)] :
                    p \in {o.product_id : o \in j}}
          [] OTHER ->
                LET g == {[order_id |-> o.order_id,
                           order_date |-> o.order_date,
                           customer_id |-> o.customer_id,
                           product_id |-> o.product_id,
                           quantity |-> o.quantity,
                           price |-> Price[o.product_id],
                           order_value |-> Amount(o)] : o \in jc}
                    date(r) == r.order_date
                IN  TopN(g, date, 20)

Joins(name, m) == Select(name, m, JoinProducts(m), JoinProducts(JoinCustomers(m)))

\* pd.read_sql_query(query, conn) for the query `name` with `filter`
\* interpolated, on the table `rows`, on day `today`.
Execute(name, filter, rows, today) == Joins(name, Where(rows, filter, today))

----------------------------------------------------------------------------
(* database_setup.sql: the order rows it inserts.  order_id is the primary *)
(* key; every order references an existing customer and product.           *)

Today == DaysFromCivil(2024, 2, 29)

OrderRow(i, c, p, q, d) ==
    [order_id |-> i, customer_id |-> c, product_id |-> p, quantity |-> q,
     order_date |-> d]

\* Every orders table of at most n rows, with ids 1..k and the other
\* columns drawn from the given sets.
Seeds(n, custs, prods, qtys, dates) ==
    UNION {{ {OrderRow(i, f[i][1], f[i][2], f[i][3], f[i][4]) : i \in 1..k} :
               f \in [1..k -> custs \X prods \X qtys \X dates] } : k \in 0..n}

\* The process specification: one customer and product, orders exactly 30
\* days old.
ProcSeeds == Seeds(MaxProcOrders, {1}, {1}, {1}, {Today - 30})

\* The query specification: every customer, product and quantity and an
\* order of the day, of 31 days before or older than a year,
AmountSeeds(day) == Seeds(MaxOrders, CustomerIds, ProductIds, Quantities,
                          {day, day - 31, day - 400})

\* or one customer and product and order ages at and around the three
\* thresholds, on a leap day, the day after it and a year after that.
StartDays == {DaysFromCivil(2024, 2, 29), DaysFromCivil(2024, 3, 1),
              DaysFromCivil(2025, 3, 1)}
Ages == {0, 30, 31, 90, 91, 365, 366, 367}
DateSeeds(day) == Seeds(MaxOrders, {1}, {1}, {1}, {day - a : a \in Ages})

----------------------------------------------------------------------------
(* run_query and the st.cache_data store.                                  *)

\* The fully rendered query text: the template `name` with the fragment.
QueryText(name, range) == [name |-> name, filter |-> DateFilter(range)]

Texts == {QueryText(n, r) : n \in QueryNames, r \in DateRanges}

Put(f, k, v) == [x \in DOMAIN f \cup {k} |-> IF x = k THEN v ELSE f[x]]

\* The except clause returning a frame of one all-NULL row.
run_query_body_null_row(text) ==
    IF db = "loaded"
    THEN [df |-> Execute(text.name, text.filter, orders, now), error |-> FALSE]
    ELSE [df |-> {[total_revenue |-> NullCell, total_orders |-> NullCell,
                   total_customers |-> NullCell, avg_order_value |-> NullCell]},
          error |-> TRUE]

\* The body of run_query, run on a cache miss.  sqlite3.connect creates the
\* file if it is missing; read_sql_query raises when the tables are not
\* there, and the except clause turns that into st.error and an empty frame.
run_query_body(text) ==
    IF db = "loaded"
    THEN [df |-> Execute(text.name, text.filter, orders, now), error |-> FALSE]
    ELSE [df |-> {}, error |-> TRUE]

\* run_query without the st.cache_data decorator.
NeverHit(text) == FALSE

\* st.cache_data looks the argument up; a stored entry is returned (and the
\* st.error it recorded replayed) without running the body.
CacheHit(text) == text \in DOMAIN cache

\* `with sqlite3.connect(...) as conn` commits or rolls back on exit and does
\* not close: the connection is closed when the object is finalised, at the
\* return (reference counting) or whenever the collector runs.
AfterReturn(open) == {open, TRUE}

run_query(text) ==
    IF CacheHit(text)
    THEN /\ lastCall' = [text |-> text, df |-> cache[text].df, hit |-> TRUE,
                         error |-> cache[text].error]
         /\ errors' = IF cache[text].error THEN errors \cup {text.name}
                      ELSE errors
         /\ UNCHANGED <<cache, execCount, okResult, unclosed>>
    ELSE LET r == run_query_body(text)
         IN  /\ cache' = Put(cache, text, r)
             /\ execCount' = [execCount EXCEPT ![text] = @ + 1]
             /\ okResult' = IF r.error \/ text \in DOMAIN okResult
                            THEN okResult
                            ELSE Put(okResult, text,
                                     [df |-> r.df, execs |-> execCount[text] + 1])
             /\ unclosed' \in AfterReturn(unclosed)
             /\ errors' = IF r.error THEN errors \cup {text.name} ELSE errors
             /\ lastCall' = [text |-> text, df |-> r.df, hit |-> FALSE,
                             error |-> r.error]

----------------------------------------------------------------------------
(* The script run, top to bottom.                                          *)

KpiNames == <<"revenue", "orders", "customers", "aov">>
ChartNames == <<"monthly", "top_products", "country", "segments">>
TableNames == <<"top_customers", "product_performance", "recent_orders">>

Empty == [x \in {} |-> {}]
NoCall == [text |-> QueryText("none", "All Time"), df |-> {}, hit |-> FALSE,
           error |-> FALSE]

\* The element after `name` in `names`, or `last` after the final one.
After(names, name, last) ==
    LET i == CHOOSE k \in 1..Len(names) : names[k] = name
    IN  IF i < Len(names) THEN names[i + 1] ELSE last

InSeq(names, x) == \E k \in 1..Len(names) : names[k] = x

\* df[col].iloc[0] if not df.empty else 0
FirstOrZero(df, col) ==
    IF df # {} THEN (CHOOSE r \in df : TRUE)[col] ELSE IntCell(0)

\* A widget change: Streamlit re-runs the script with the new widget values.
\* The change is taken between runs, or by the rerun loop of the sidebar.
UserInput ==
    /\ inputs < MaxInputs
    /\ pc \in {"sidebar", "done", "crashed"}
    /\ inputs' = inputs + 1
    /\ \/ /\ date_range' \in DateRanges \ {date_range}
          /\ UNCHANGED <<show_details, auto_refresh>>
       \/ /\ show_details' = ~show_details
          /\ UNCHANGED <<date_range, auto_refresh>>
       \/ /\ auto_refresh' = ~auto_refresh
          /\ UNCHANGED <<date_range, show_details>>
    /\ pc' = "start"
    /\ UNCHANGED <<seed, db, orders, now, cache, frame, display, errors, fault,
                   unclosed, execCount, okResult, lastCall, ticks>>

\* The top of the script: a fresh page.
Start ==
    /\ pc = "start"
    /\ pc' = "sidebar"
    /\ frame' = Empty
    /\ display' = Empty
    /\ errors' = {}
    /\ fault' = FALSE
    /\ UNCHANGED <<seed, db, orders, now, date_range, show_details,
                   auto_refresh, cache, unclosed, execCount, okResult,
                   lastCall, inputs, ticks>>

\* with st.sidebar: ... if auto_refresh: st.rerun()
Sidebar ==
    /\ pc = "sidebar"
    /\ pc' = IF auto_refresh THEN "start" ELSE "revenue"
    /\ UNCHANGED <<seed, db, orders, now, date_range, show_details,
                   auto_refresh, cache, frame, display, errors, fault,
                   unclosed, execCount, okResult, lastCall, inputs, ticks>>

\* revenue_df, orders_df, customers_df, aov_df = run_query(...)
KpiQuery ==
    /\ InSeq(KpiNames, pc)
    /\ run_query(QueryText(pc, date_range))
    /\ frame' = Put(frame, pc, lastCall'.df)
    /\ pc' = After(KpiNames, pc, "kpi")
    /\ UNCHANGED <<seed, db, orders, now, date_range, show_details,
                   auto_refresh, display, fault, inputs, ticks>>

Metric(value) == [kind |-> "metric", value |-> value]
Info == [kind |-> "info"]

\* The four st.metric calls, in order; an exception ends the run there.
\* [shown: the elements rendered, raised: whether an exception ended it]
KpiDisplay(fr, shown) ==
    LET total_revenue == FirstOrZero(fr["revenue"], "total_revenue")
        total_orders == FirstOrZero(fr["orders"], "total_orders")
        total_customers == FirstOrZero(fr["customers"], "total_customers")
        avg_order_value == FirstOrZero(fr["aov"], "avg_order_value")
        d1 == Put(shown, "revenue", Metric(format_currency(total_revenue)))
    IN  IF format_number_raises(total_orders)
        THEN [shown |-> d1, raised |-> TRUE]
        ELSE IF format_number_raises(total_customers)
        THEN [shown |-> Put(d1, "orders", Metric(format_number(total_orders))),
              raised |-> TRUE]
        ELSE [shown |->
                Put(Put(Put(d1, "orders", Metric(format_number(total_orders))),
                        "customers", Metric(format_number(total_customers))),
                    "aov", Metric(format_currency(avg_order_value))),
              raised |-> FALSE]

KpiRender ==
    /\ pc = "kpi"
    /\ display' = KpiDisplay(frame, display).shown
    /\ fault' = KpiDisplay(frame, display).raised
    /\ pc' = IF KpiDisplay(frame, display).raised THEN "crashed" ELSE "monthly"
    /\ UNCHANGED <<seed, db, orders, now, date_range, show_details,
                   auto_refresh, cache, frame, errors, unclosed, execCount,
                   okResult, lastCall, inputs, ticks>>

\* if not df.empty: st.plotly_chart(...) else: st.info(...)
ChartDisplay(df) == IF df # {} THEN [kind |-> "chart"] ELSE Info

\* A chart: the query, then the figure or the st.info placeholder.
ChartQuery ==
    /\ InSeq(ChartNames, pc)
    /\ run_query(QueryText(pc, date_range))
    /\ display' = Put(display, pc, ChartDisplay(lastCall'.df))
    /\ pc' = After(ChartNames, pc, "details")
    /\ UNCHANGED <<seed, db, orders, now, date_range, show_details,
                   auto_refresh, frame, fault, inputs, ticks>>

\* if show_details:
Details ==
    /\ pc = "details"
    /\ pc' = IF show_details THEN "top_customers" ELSE "footer"
    /\ UNCHANGED <<seed, db, orders, now, date_range, show_details,
                   auto_refresh, cache, frame, display, errors, fault,
                   unclosed, execCount, okResult, lastCall, inputs, ticks>>

\* The currency columns a table adds before st.dataframe.
Formatted(name, df) ==
    CASE name = "top_customers" ->
            {[customer_id |-> r.customer_id,
              total_spent_formatted |-> format_currency(IntCell(r.total_spent))] :
                r \in df}
      [] name = "product_performance" ->
            {[product_id |-> r.product_id,
              price_formatted |-> format_currency(IntCell(r.price)),
              total_revenue_formatted |->
                 format_currency(IntCell(r.total_revenue))] : r \in df}
      [] OTHER ->
            {[order_id |-> r.order_id,
              price_formatted |-> format_currency(IntCell(r.price)),
              order_value_formatted |->
                 format_currency(IntCell(r.order_value))] : r \in df}

\* if not df.empty: st.dataframe(display_df) else: st.info(...)
TableDisplay(name, df) ==
    IF df # {} THEN [kind |-> "table", rows |-> Formatted(name, df)] ELSE Info

\* A tab of the detail section: the query, then the table or st.info.
TableQuery ==
    /\ InSeq(TableNames, pc)
    /\ run_query(QueryText(pc, date_range))
    /\ display' = Put(display, pc, TableDisplay(pc, lastCall'.df))
    /\ pc' = After(TableNames, pc, "footer")
    /\ UNCHANGED <<seed, db, orders, now, date_range, show_details,
                   auto_refresh, frame, fault, inputs, ticks>>

Footer ==
    /\ pc = "footer"
    /\ pc' = "done"
    /\ UNCHANGED <<seed, db, orders, now, date_range, show_details,
                   auto_refresh, cache, frame, display, errors, fault,
                   unclosed, execCount, okResult, lastCall, inputs, ticks>>

----------------------------------------------------------------------------
(* The environment of the process.                                         *)

\* init_db.py: executescript(database_setup.sql), commit, close.
init_db ==
    /\ db = "missing"
    /\ db' = "loaded"
    /\ orders' = seed
    /\ UNCHANGED <<seed, now, date_range, show_details, auto_refresh, pc,
                   cache, frame, display, errors, fault, unclosed, execCount,
                   okResult, lastCall, inputs, ticks>>

\* Midnight: date('now') moves to the next day.
Midnight ==
    /\ ticks < MaxTicks
    /\ ticks' = ticks + 1
    /\ now' = now + 1
    /\ UNCHANGED <<seed, db, orders, date_range, show_details, auto_refresh,
                   pc, cache, frame, display, errors, fault, unclosed,
                   execCount, okResult, lastCall, inputs>>

\* The interpreter finalises the unreachable Connection object.
Finalize ==
    /\ unclosed
    /\ unclosed' = FALSE
    /\ UNCHANGED <<seed, db, orders, now, date_range, show_details,
                   auto_refresh, pc, cache, frame, display, errors, fault,
                   execCount, okResult, lastCall, inputs, ticks>>

----------------------------------------------------------------------------
(* The process: started with the default widget values, before init_db has *)
(* run or (init_db being the first step) after.                            *)

InitProcess ==
    /\ date_range = "All Time"
    /\ show_details = TRUE
    /\ auto_refresh = FALSE
    /\ pc = "start"
    /\ cache = Empty
    /\ frame = Empty
    /\ display = Empty
    /\ errors = {}
    /\ fault = FALSE
    /\ unclosed = FALSE
    /\ execCount = [t \in Texts |-> 0]
    /\ okResult = Empty
    /\ lastCall = NoCall
    /\ inputs = 0
    /\ ticks = 0

Init ==
    /\ seed \in ProcSeeds
    /\ db = "missing"
    /\ orders = {}
    /\ now = Today
    /\ InitProcess

Script == Start \/ Sidebar \/ KpiQuery \/ KpiRender \/ ChartQuery \/ Details
              \/ TableQuery \/ Footer

Next == UserInput \/ Start \/ Sidebar \/ KpiQuery \/ KpiRender \/ ChartQuery
            \/ Details \/ TableQuery \/ Footer \/ init_db \/ Midnight
            \/ Finalize

Spec == Init /\ [][Next]_vars

\* The script runner executes a started run to its end unless a widget
\* change stops it.
FairSpec == Spec /\ WF_vars(Script)

----------------------------------------------------------------------------------------------------------------------------------------
(* The queries and the rendering as functions of the data: a script run    *)
(* taken as one step, in a process started after init_db whose clock does  *)
(* not move and whose cache is empty, so that every run_query result is    *)
(* the result of executing the text.  The run starts from any data and any *)
(* values of the two widgets the queries depend on.                        *)

RunNames(details) ==
    {KpiNames[k] : k \in 1..4} \cup {ChartNames[k] : k \in 1..4}
        \cup (IF details THEN {TableNames[k] : k \in 1..3} ELSE {})

ElementDisplay(name, df) ==
    IF InSeq(ChartNames, name) THEN ChartDisplay(df) ELSE TableDisplay(name, df)

Render ==
    /\ pc = "start"
    /\ db = "loaded"
    /\ ~auto_refresh
    /\ frame' = [n \in RunNames(show_details) |->
                    Execute(n, DateFilter(date_range), orders, now)]
    /\ fault' = KpiDisplay(frame', Empty).raised
    /\ display' =
         IF fault' THEN KpiDisplay(frame', Empty).shown
         ELSE [n \in RunNames(show_details) |->
                 IF InSeq(KpiNames, n) THEN KpiDisplay(frame', Empty).shown[n]
                 ELSE ElementDisplay(n, frame'[n])]
    /\ pc' = IF fault' THEN "crashed" ELSE "done"
    /\ UNCHANGED <<seed, db, orders, now, date_range, show_details,
                   auto_refresh, cache, errors, unclosed, execCount, okResult,
                   lastCall, inputs, ticks>>

QueryInit ==
    /\ \/ now = Today /\ seed \in AmountSeeds(now)
       \/ now \in StartDays /\ seed \in DateSeeds(now)
    /\ db = "loaded"
    /\ orders = seed
    /\ date_range \in DateRanges
    /\ show_details \in BOOLEAN
    /\ auto_refresh = FALSE
    /\ pc = "start"
    /\ cache = Empty
    /\ frame = Empty
    /\ display = Empty
    /\ errors = {}
    /\ fault = FALSE
    /\ unclosed = FALSE
    /\ execCount = [t \in Texts |-> 0]
    /\ okResult = Empty
    /\ lastCall = NoCall
    /\ inputs = 0
    /\ ticks = 0

QueryNext == Render

QuerySpec == QueryInit /\ [][QueryNext]_vars

----------------------------------------------------------------------------
(* Properties.                                                             *)

\* The orders the current selection matches today.
Matched == Where(orders, DateFilter(date_range), now)

\* The queries the run in progress has called so far.
Ran == IF pc = "start" THEN {} ELSE DOMAIN frame \cup DOMAIN display

\* C1: a run_query call whose text was executed successfully before is not
\* executed again (the executions of a text stay what they were at its first
\* success) and returns the result of that execution.
C1_CachedResultReused ==
    /\ \A t \in DOMAIN okResult : execCount[t] = okResult[t].execs
    /\ lastCall.text \in DOMAIN okResult =>
          lastCall.df = okResult[lastCall.text].df

\* A call served from the cache after a successful execution, on a later day.
C1_Witness ==
    /\ lastCall.hit
    /\ ~lastCall.error
    /\ lastCall.df # {}
    /\ execCount[lastCall.text] = 1
    /\ ticks > 0

\* C2: a failed execution leaves no cache entry, and no call is served the
\* empty result of an earlier failure.
C2_FailureNotCached ==
    /\ \A t \in DOMAIN cache : ~cache[t].error
    /\ ~(lastCall.hit /\ lastCall.error)

\* What the element of query n shows for an empty result.
Fallback(n) ==
    CASE n \in {"revenue", "aov"} -> Metric("₹0")
      [] n \in {"orders", "customers"} -> Metric("0")
      [] OTHER -> Info

\* C3: no failure of a query escapes run_query: no run is stopped by an
\* exception, and every query of the run that failed returned the empty frame
\* with its error reported, and its element shows the fallback.
C3_FailureDegrades ==
    /\ ~fault
    /\ pc # "crashed"
    /\ \A n \in Ran :
          cache[QueryText(n, date_range)].error =>
             /\ cache[QueryText(n, date_range)].df = {}
             /\ n \in errors
             /\ n \in DOMAIN frame => frame[n] = {}
             /\ n \in DOMAIN display => display[n] = Fallback(n)

\* A finished run whose first queries failed and whose last ones succeeded.
C3_Witness ==
    /\ pc = "done"
    /\ {"revenue", "monthly"} \subseteq errors
    /\ "recent_orders" \in DOMAIN display
    /\ "recent_orders" \notin errors
    /\ display["revenue"] = Metric("₹0")
    /\ display["monthly"] = Info

ScalarNames == {"revenue", "orders", "customers", "aov"}

ZeroDisplay ==
    /\ display["revenue"] = Metric("₹0")
    /\ display["orders"] = Metric("0")
    /\ display["customers"] = Metric("0")
    /\ display["aov"] = Metric("₹0")

\* C4 as stated: with no order rows, every query of the run returns the
\* empty result set and the four KPIs show their zero display.
C4_AllEmpty ==
    (pc = "done" /\ orders = {}) =>
        /\ ~fault
        /\ \A n \in DOMAIN frame : frame[n] = {}
        /\ ZeroDisplay

\* C4 amended: with no order rows no query raises; the seven grouped or
\* row-listing queries return the empty result set, the four scalar
\* aggregates return one row (NULL for SUM and AVG, 0 for the two COUNTs),
\* and the four KPIs show their zero display.
C4_EmptyDatabase ==
    (pc \in {"done", "crashed"} /\ orders = {}) =>
        /\ ~fault
        /\ errors = {}
        /\ \A n \in DOMAIN frame \ ScalarNames : frame[n] = {}
        /\ frame["revenue"] = {[total_revenue |-> NullCell]}
        /\ frame["orders"] = {[total_orders |-> IntCell(0)]}
        /\ frame["customers"] = {[total_customers |-> IntCell(0)]}
        /\ frame["aov"] = {[avg_order_value |-> NullCell]}
        /\ ZeroDisplay

\* A finished run of all eleven queries on the empty table, date-filtered.
C4_Witness ==
    /\ pc = "done"
    /\ orders = {}
    /\ date_range = "Last 30 Days"
    /\ DOMAIN frame = QueryNames

SegmentNames == {"VIP", "Premium", "Regular", "New"}

InBand(s, total) ==
    CASE s = "VIP" -> total >= 10000
      [] s = "Premium" -> total >= 5000 /\ total < 10000
      [] s = "Regular" -> total >= 1000 /\ total < 5000
      [] OTHER -> total < 1000

MatchedCustomers == {o.customer_id : o \in Matched}

Spent(c) == SumOf({o \in Matched : o.customer_id = c}, Amount)

CustomerCount(r) == r.customer_count

\* C5: the segment rows partition the customers with a matching order: each
\* row is one of the four segments, no segment has two rows, each row counts
\* the customers whose spending is in its band, every such customer is in
\* the band of exactly one row, and the counts sum to the number of them.
C5_SegmentsPartition ==
    pc = "done" =>
        /\ \A r \in frame["segments"] :
              /\ r.segment \in SegmentNames
              /\ r.customer_count =
                    Cardinality({c \in MatchedCustomers :
                                    InBand(r.segment, Spent(c))})
              /\ \A q \in frame["segments"] : q.segment = r.segment => q = r
        /\ \A c \in MatchedCustomers :
              Cardinality({r \in frame["segments"] :
                              InBand(r.segment, Spent(c))}) = 1
        /\ SumOf(frame["segments"], CustomerCount)
              = Cardinality(MatchedCustomers)

\* A date-filtered run with a customer at the VIP threshold and another one
\* in a lower segment.
C5_Witness ==
    /\ pc = "done"
    /\ date_range = "Last 90 Days"
    /\ Cardinality(frame["segments"]) = 2
    /\ \E c \in MatchedCustomers : Spent(c) = 10000

KpiCell(n, col) == (CHOOSE r \in frame[n] : TRUE)[col]

\* C6: when an order matches, average order value times total distinct
\* orders equals total revenue.
C6_AovConsistent ==
    (pc = "done" /\ Matched # {}) =>
        /\ KpiCell("aov", "avg_order_value").t = "real"
        /\ KpiCell("revenue", "total_revenue").t = "int"
        /\ KpiCell("aov", "avg_order_value").num
              * KpiCell("orders", "total_orders").v
             = KpiCell("revenue", "total_revenue").v
                  * KpiCell("aov", "avg_order_value").den

\* A date-filtered run matching two orders of one customer, of different
\* value.
C6_Witness ==
    /\ pc = "done"
    /\ date_range = "Last 90 Days"
    /\ Cardinality(Matched) = 2
    /\ Cardinality(MatchedCustomers) = 1
    /\ \E a, b \in Matched : Amount(a) # Amount(b)

MatchedBy(range) == Where(orders, DateFilter(range), now)

Ids(rows) == {r.order_id : r \in rows}
MonthlyOrders(r) == r.monthly_orders
MonthlyRevenue(r) == r.monthly_revenue
CountryRevenue(r) == r.revenue
ProductRevenue(r) == r.total_revenue

\* C7: the orders matched narrow from All Time to Last Year to Last 90 Days
\* to Last 30 Days, and the queries of a run all see the same matched orders:
\* their counts and sums agree with one another.
C7_Narrowing ==
    /\ MatchedBy("Last 30 Days") \subseteq MatchedBy("Last 90 Days")
    /\ MatchedBy("Last 90 Days") \subseteq MatchedBy("Last Year")
    /\ MatchedBy("Last Year") \subseteq MatchedBy("All Time")
    /\ pc = "done" =>
          /\ KpiCell("orders", "total_orders").v = Cardinality(Ids(Matched))
          /\ SumOf(frame["monthly"], MonthlyOrders) = Cardinality(Ids(Matched))
          /\ KpiCell("customers", "total_customers").v
                = SumOf(frame["segments"], CustomerCount)
          /\ Matched # {} =>
                /\ SumOf(frame["monthly"], MonthlyRevenue)
                      = KpiCell("revenue", "total_revenue").v
                /\ SumOf(frame["country"], CountryRevenue)
                      = KpiCell("revenue", "total_revenue").v
          /\ show_details =>
                /\ Ids(frame["recent_orders"]) = Ids(Matched)
                /\ SumOf(frame["product_performance"], ProductRevenue)
                      = SumOf(frame["monthly"], MonthlyRevenue)
                /\ Cardinality(frame["top_customers"])
                      = KpiCell("customers", "total_customers").v

\* A Last-30-Days run on the day after a leap day, with an order matched by
\* it, one matched only from Last 90 Days on, and so one more in Last Year.
C7_Witness ==
    /\ pc = "done"
    /\ show_details
    /\ date_range = "Last 30 Days"
    /\ now = DaysFromCivil(2024, 3, 1)
    /\ Matched # {}
    /\ MatchedBy("Last 30 Days") # MatchedBy("Last 90 Days")

\* C8: no connection opened by run_query is open once run_query has returned.
C8_ConnectionClosed == ~unclosed

\* C9: a started run reaches the end of the script.
C9_RunCompletes == (pc = "start") ~> (pc = "done")

\* C10: after the load, what the cache holds for a text is what executing
\* the text now returns.
C10_CacheIsFresh ==
    db = "loaded" =>
        \A t \in DOMAIN cache :
            ~cache[t].error =>
                cache[t].df = Execute(t.name, t.filter, orders, now)

====
